---- MODULE Spec2Model ----
(***************************************************************************)
(* The authenticated API gateway client (services/api.ts) together with    *)
(* the session store it reads through getAuthState (store/auth.ts).        *)
(*                                                                         *)
(* JavaScript runs every callback to completion: a handler is suspended    *)
(* only where it awaits the transport.  One action is therefore one        *)
(* callback run from its start (or from the await it resumes at) to its    *)
(* next await or its end.                                                  *)
(***************************************************************************)
EXTENDS Integers, Sequences, FiniteSets, Bags

VARIABLES
    authStore,               \* useAuthStore's state
    selectedCampusId,        \* api.ts module variable
    getAuthState,            \* api.ts module variable: None or "store"
    navigationResetToLogin,  \* api.ts module variable: None or "fn"
    inflight,                \* bag of the requests whose promise is pending
    event,                   \* what the step just taken did at the client's interfaces
    issued,                  \* credential pairs the backend has issued
    scenario,                \* how far the run follows login, 401, refresh, retry
    watch,                   \* observer following one request to its completion
    useAuth                  \* the useAuth call in progress and its API call's outcome

vars == <<authStore, selectedCampusId, getAuthState, navigationResetToLogin,
          inflight, event, issued, scenario, watch, useAuth>>

----------------------------------------------------------------------------
(* Bounds of the model *)

\* requests whose promise is pending at the same time
MaxInFlight == 2
\* credential pairs the backend issues (logins and refresh exchanges)
MaxPairs == 3

----------------------------------------------------------------------------
(* Values *)

\* null and undefined; every optional value is a tuple, empty when absent
None == <<>>

CampusIds == {<<"c1">>}

Users == {<<"u1">>}

\* the n-th credential pair the backend issues
AccessOf(n) == <<"A", n>>
RefreshOf(n) == <<"R", n>>

\* HTTP status that starts the refresh protocol
Unauthorized == 401
\* a success status
Ok == 200
\* any other error status
ServerError == 500
\* error.response is undefined for a failure without a response
NoResponse == 0

ErrorKinds == {Unauthorized, ServerError, NoResponse}

\* JavaScript truthiness of a string | null (the backend's credentials and
\* campus ids are non-empty strings)
Truthy(x) == x # None

\* mutant: another authorization scheme
BearerToken(tok) == <<"Token", tok>>

\* `Bearer ${accessToken}`
Bearer(tok) == <<"Bearer", tok>>

----------------------------------------------------------------------------
(* store/auth.ts: the session store *)

AuthInit ==
    [user |-> None, accessToken |-> None, refreshToken |-> None,
     isAuthenticated |-> FALSE, isHydrated |-> FALSE]

setUser(s, u) == [s EXCEPT !.user = u]

\* mutant: the two credentials stored in each other's field
setTokensSwapped(s, a, rt) == [s EXCEPT !.accessToken = rt, !.refreshToken = a]

\* mutant: the refresh credential is not replaced
setTokensKeepRefresh(s, a, rt) == [s EXCEPT !.accessToken = a]

setTokens(s, a, rt) == [s EXCEPT !.accessToken = a, !.refreshToken = rt]

login(s, u, a, rt) ==
    [s EXCEPT !.user = u, !.accessToken = a, !.refreshToken = rt,
              !.isAuthenticated = TRUE]

\* mutant: logout puts the store back into its initial state
logoutResetsStore(s) == AuthInit

logout(s) ==
    [s EXCEPT !.user = None, !.accessToken = None, !.refreshToken = None,
              !.isAuthenticated = FALSE]

setHydrated(s, h) == [s EXCEPT !.isHydrated = h]

----------------------------------------------------------------------------
(* services/api.ts: the request interceptor *)

Bodies == {<<"b1">>}

\* a request description as a caller hands it to api (the Content-Type is
\* the instance default)
NewConfig(body) ==
    [body |-> body, ContentType |-> <<"application/json">>,
     Authorization |-> None, XCampusId |-> None, retry |-> FALSE]

\* services/auth.ts, authApi.login(data): POST /auth/login through api
AuthApiLogin == NewConfig(<<"/auth/login">>)

\* services/auth.ts, authApi.logout(refreshToken): POST /auth/logout through
\* api (the refresh credential travels in the body)
AuthApiLogout(refreshToken) == NewConfig(<<"/auth/logout">>)

\* the calls of authApi
AuthBodies == {<<"/auth/login">>, <<"/auth/logout">>}

\* mutant: the headers are appended to the ones the config already carries
DecorateAppend(config, getter, s, campus) ==
    LET c1 == IF getter # None /\ Truthy(s.accessToken)
              THEN [config EXCEPT !.Authorization = @ \o Bearer(s.accessToken)]
              ELSE config
    IN IF Truthy(campus) THEN [c1 EXCEPT !.XCampusId = @ \o campus] ELSE c1

\* mutant: the headers object is replaced by one holding the two headers only
DecorateClobber(config, getter, s, campus) ==
    LET c1 == IF getter # None /\ Truthy(s.accessToken)
              THEN [config EXCEPT !.Authorization = Bearer(s.accessToken),
                                  !.ContentType = None]
              ELSE config
    IN IF Truthy(campus) THEN [c1 EXCEPT !.XCampusId = campus] ELSE c1

\* mutant: a request already marked as retried gets no campus header
DecorateNotOnRetry(config, getter, s, campus) ==
    LET c1 == IF getter # None /\ Truthy(s.accessToken)
              THEN [config EXCEPT !.Authorization = Bearer(s.accessToken)]
              ELSE config
    IN IF Truthy(campus) /\ ~config.retry
       THEN [c1 EXCEPT !.XCampusId = campus] ELSE c1

\* the request interceptor, on the module state (getter, s, campus)
Decorate(config, getter, s, campus) ==
    LET c1 == IF getter # None /\ Truthy(s.accessToken)
              THEN [config EXCEPT !.Authorization = Bearer(s.accessToken)]
              ELSE config
    IN IF Truthy(campus) THEN [c1 EXCEPT !.XCampusId = campus] ELSE c1

RequestInterceptor(config) ==
    Decorate(config, getAuthState, authStore, selectedCampusId)

----------------------------------------------------------------------------
(* Requests *)

\* the error object of a failed transport call of the request
ErrorOf(status, attempt) ==
    [ok |-> FALSE, of |-> "request", status |-> status, attempt |-> attempt]

\* the error object of a failed refresh exchange
RefreshErrorOf(status) ==
    [ok |-> FALSE, of |-> "refresh", status |-> status, attempt |-> 0]

\* the response object of a successful transport call
ResponseOf(attempt) ==
    [ok |-> TRUE, of |-> "request", status |-> Ok, attempt |-> attempt]

\* mutant: the refresh exchange goes through the intercepted client
RefreshCallIntercepted(refreshToken) ==
    [refreshToken |-> refreshToken,
     Authorization |-> RequestInterceptor(NewConfig(refreshToken)).Authorization,
     XCampusId |-> RequestInterceptor(NewConfig(refreshToken)).XCampusId]

\* mutant: the exchange sends the refresh credential of the first login
RefreshCallStale(refreshToken) ==
    [refreshToken |-> RefreshOf(1), Authorization |-> None, XCampusId |-> None]

\* axios.post(`${config.apiUrl}/auth/refresh`, { refreshToken }): the
\* message of the refresh exchange, sent with the bare axios
RefreshCall(refreshToken) ==
    [refreshToken |-> refreshToken, Authorization |-> None, XCampusId |-> None]

\* a pending request: its config object, the handler's closure (error, the
\* refresh exchange awaited, the pair it returned), what has been done on
\* its behalf, and the callbacks its handler has invoked, in order
NewRequest(config) ==
    [pc |-> "sent", config |-> config, error |-> None,
     refreshSent |-> None, refreshPair |-> None,
     nRefresh |-> 0, nLogout |-> 0, nNav |-> 0, attempts |-> 1,
     calls |-> <<>>]

Pending == BagToSet(inflight)

\* the state of the two modules
ModuleState ==
    [authStore |-> authStore, selectedCampusId |-> selectedCampusId,
     getAuthState |-> getAuthState,
     navigationResetToLogin |-> navigationResetToLogin]

\* a step of the client, as seen at its interfaces: what it was given
\* (input), the module state it started from (before), and either the
\* request it handed to the transport (type "sent"), the request whose
\* refresh exchange it started (type "exchange"), or the outcome it settled
\* the caller's promise with (type "settled")
Sent(input, q) ==
    <<[type |-> "sent", input |-> input, request |-> q, result |-> None,
       before |-> ModuleState]>>

Exchange(input, q) ==
    <<[type |-> "exchange", input |-> input, request |-> q, result |-> None,
       before |-> ModuleState]>>

Settled(input, q, result) ==
    <<[type |-> "settled", input |-> input,
       request |-> [nRefresh |-> q.nRefresh, nLogout |-> q.nLogout,
                    nNav |-> q.nNav, attempts |-> q.attempts,
                    retry |-> q.config.retry,
                    calls |-> Append(q.calls,
                                     IF result.ok THEN "resolve" ELSE "reject")],
       result |-> <<result>>, before |-> ModuleState]>>

\* what the caller of a settled API call learns: the summary of the request
\* and the response or error its promise settled with
CallOutcome(q, result) ==
    <<[request |-> Settled(<<>>, q, result)[1].request, result |-> result]>>

\* a summary for a useAuth call that made no API call
NoCall ==
    [nRefresh |-> 0, nLogout |-> 0, nNav |-> 0, attempts |-> 0,
     retry |-> FALSE, calls |-> <<>>]

\* a step of useAuth after its API call settled (or was skipped): what it
\* was given (input), the summary of its API call (request), the module
\* state it started from (before) and what it returned to the screen
Returned(input, request, result) ==
    <<[type |-> "returned", input |-> input, request |-> request,
       result |-> <<result>>, before |-> ModuleState]>>

Init ==
    /\ authStore = AuthInit
    /\ selectedCampusId = None
    /\ getAuthState = None
    /\ navigationResetToLogin = None
    /\ inflight = EmptyBag
    /\ event = None
    /\ issued = 0
    /\ scenario = "start"
    /\ watch = [on |-> FALSE, request |-> None]
    /\ useAuth = [op |-> None, result |-> None]

\* the same state, with the observer switched on
InitWatching ==
    /\ authStore = AuthInit
    /\ selectedCampusId = None
    /\ getAuthState = None
    /\ navigationResetToLogin = None
    /\ inflight = EmptyBag
    /\ event = None
    /\ issued = 0
    /\ scenario = "start"
    /\ watch = [on |-> TRUE, request |-> None]
    /\ useAuth = [op |-> None, result |-> None]

\* the observer, when a request q is issued: it may start following q if it
\* is switched on and follows nothing
WatchNew(q) ==
    watch' \in {watch} \cup
               (IF watch.on /\ watch.request = None
                THEN {[watch EXCEPT !.request = <<q>>]} ELSE {})

\* the observer, when a step is taken on the pending request q and makes it
\* next (None when the request settles): requests with equal records are
\* indistinguishable, so with several copies of q pending the step may be
\* of the followed one or of another
Watch(q, next) ==
    watch' \in (IF watch.request = <<q>>
                THEN {[watch EXCEPT !.request = next]} \cup
                     (IF CopiesIn(q, inflight) > 1 THEN {watch} ELSE {})
                ELSE {watch})

\* the run so far, as a prefix of: login, one request, 401, refresh answered
\* with a pair, retry answered
ScenarioNext(s, what) ==
    CASE what = "neutral" -> s
      [] s = "start" /\ what = "login" -> "loggedIn"
      [] s = "loggedIn" /\ what = "request" -> "called"
      [] s = "called" /\ what = "response401" -> "failed401"
      [] s = "failed401" /\ what = "refreshOk" -> "refreshed"
      [] s = "refreshed" /\ what \in {"response", "response401"} -> "finished"
      [] OTHER -> "off"

\* re-issues of a request so far: its transport calls beyond the first
nRetry(q) == q.attempts - 1

----------------------------------------------------------------------------
(* Module-level setters and store operations called by the application *)

\* mutant: changing the campus drops the session
SetSelectedCampusIdClears(c) ==
    /\ selectedCampusId' = c
    /\ authStore' = logout(authStore)
    /\ scenario' = ScenarioNext(scenario, "neutral")
    /\ event' = None
    /\ UNCHANGED <<watch, useAuth, getAuthState, navigationResetToLogin, inflight, issued>>

SetSelectedCampusId(c) ==
    /\ selectedCampusId' = c
    /\ scenario' = ScenarioNext(scenario, "neutral")
    /\ event' = None
    /\ UNCHANGED <<watch, useAuth, authStore, getAuthState, navigationResetToLogin, inflight,
                   issued>>

SetAuthStoreGetter ==
    /\ getAuthState' = <<"store">>
    /\ scenario' = ScenarioNext(scenario, "neutral")
    /\ event' = None
    /\ UNCHANGED <<watch, useAuth, authStore, selectedCampusId, navigationResetToLogin,
                   inflight, issued>>

SetNavigationResetToLogin ==
    /\ navigationResetToLogin' = <<"fn">>
    /\ scenario' = ScenarioNext(scenario, "neutral")
    /\ event' = None
    /\ UNCHANGED <<watch, useAuth, authStore, selectedCampusId, getAuthState, inflight, issued>>

Login(u) ==
    /\ issued < MaxPairs
    /\ issued' = issued + 1
    /\ authStore' = login(authStore, u, AccessOf(issued + 1), RefreshOf(issued + 1))
    /\ scenario' = ScenarioNext(scenario, "login")
    /\ event' = None
    /\ UNCHANGED <<watch, useAuth, selectedCampusId, getAuthState, navigationResetToLogin,
                   inflight>>

Logout ==
    /\ authStore' = logout(authStore)
    /\ scenario' = ScenarioNext(scenario, "logout")
    /\ event' = None
    /\ UNCHANGED <<watch, useAuth, selectedCampusId, getAuthState, navigationResetToLogin,
                   inflight, issued>>

----------------------------------------------------------------------------
(* services/api.ts: a request and the response interceptor *)

\* mutant: a request that has had a refresh exchange settles with the
\* failure that started the exchange
SettleWithFirstError(input, q, final, result) ==
    /\ inflight' = inflight (-) SetToBag({q})
    /\ event' = Settled(input, final,
                        IF q.error # None THEN q.error[1] ELSE result)
    /\ Watch(q, None)
    /\ useAuth' = IF q.config.body \in AuthBodies
                  THEN [useAuth EXCEPT !.result = CallOutcome(final, result)]
                  ELSE useAuth

\* the promise of the pending request q settles with result; final is q with
\* what the settling handler did to it
Settle(input, q, final, result) ==
    /\ inflight' = inflight (-) SetToBag({q})
    /\ event' = Settled(input, final, result)
    /\ Watch(q, None)
    /\ useAuth' = IF q.config.body \in AuthBodies
                  THEN [useAuth EXCEPT !.result = CallOutcome(final, result)]
                  ELSE useAuth

\* api(config): the request interceptor decorates config, the transport sends
Request(body) ==
    /\ BagCardinality(inflight) < MaxInFlight
    /\ LET q == NewRequest(RequestInterceptor(NewConfig(body)))
       IN /\ inflight' = inflight (+) SetToBag({q})
          /\ event' = Sent(<<"call">>, q)
          /\ WatchNew(q)
    /\ scenario' = ScenarioNext(scenario, "request")
    /\ UNCHANGED <<authStore, selectedCampusId, getAuthState,
                   navigationResetToLogin, issued, useAuth>>

\* mutant: the response of a retry is turned into the first failure
ResponseSuccessRejects(q) ==
    /\ q.pc \in {"sent", "retrying"}
    /\ Settle(<<"response", Ok, q.attempts>>, q, q,
              IF q.attempts > 1 THEN ErrorOf(Unauthorized, 1)
                                ELSE ResponseOf(q.attempts))
    /\ scenario' = ScenarioNext(scenario, "response")
    /\ UNCHANGED <<authStore, selectedCampusId, getAuthState,
                   navigationResetToLogin, issued>>

\* (response) => response
ResponseSuccess(q) ==
    /\ q.pc \in {"sent", "retrying"}
    /\ Settle(<<"response", Ok, q.attempts>>, q, q, ResponseOf(q.attempts))
    /\ scenario' = ScenarioNext(scenario, "response")
    /\ UNCHANGED <<authStore, selectedCampusId, getAuthState,
                   navigationResetToLogin, issued>>

\* mutant: the one-shot flag is not consulted
ShouldRefreshIgnoresRetry(error, config) ==
    error.status = Unauthorized /\ getAuthState # None

\* mutant: every failure starts the refresh protocol
ShouldRefreshAnyFailure(error, config) ==
    ~config.retry /\ getAuthState # None

\* mutant: no refresh protocol while another request's exchange is awaited
ShouldRefreshCoalesced(error, config) ==
    /\ error.status = Unauthorized /\ ~config.retry /\ getAuthState # None
    /\ \A p \in BagToSet(inflight) : p.pc # "refreshing"

\* mutant: every error status starts the refresh protocol
ShouldRefreshAnyStatus(error, config) ==
    error.status # NoResponse /\ ~config.retry /\ getAuthState # None

\* mutant: the guard does not ask whether a getter is installed
ShouldRefreshNoGetterCheck(error, config) ==
    error.status = Unauthorized /\ ~config.retry

\* the guard of the refresh protocol
ShouldRefresh(error, config) ==
    error.status = Unauthorized /\ ~config.retry /\ getAuthState # None

\* mutant: the request is not marked
MarkRetriedNot(config) == config

\* originalRequest._retry = true
MarkRetried(config) == [config EXCEPT !.retry = TRUE]

\* mutant: the navigation reset is left out
ForceLogoutNoNav(input, q, q1, error) ==
    /\ authStore' = logout(authStore)
    /\ Settle(input, q,
              [q1 EXCEPT !.nLogout = @ + 1, !.calls = Append(@, "logout")],
              error)

\* mutant: the navigation reset comes first
ForceLogoutNavFirst(input, q, q1, error) ==
    /\ authStore' = logout(authStore)
    /\ Settle(input, q,
              [q1 EXCEPT !.nLogout = @ + 1,
                         !.nNav = IF navigationResetToLogin # None
                                  THEN @ + 1 ELSE @,
                         !.calls = IF navigationResetToLogin # None
                                   THEN @ \o <<"navigationResetToLogin", "logout">>
                                   ELSE @ \o <<"logout">>],
              error)

\* getAuthState().logout(); navigationResetToLogin?.(); then
\* return Promise.reject(error), for the pending request q, whose handler
\* has made it q1
ForceLogout(input, q, q1, error) ==
    /\ authStore' = logout(authStore)
    /\ Settle(input, q,
              [q1 EXCEPT !.nLogout = @ + 1,
                         !.nNav = IF navigationResetToLogin # None
                                  THEN @ + 1 ELSE @,
                         !.calls = IF navigationResetToLogin # None
                                   THEN @ \o <<"logout", "navigationResetToLogin">>
                                   ELSE @ \o <<"logout">>],
              error)

\* mutant: the failure of the retry lands in the catch branch
ResponseErrorCaught(q, status) ==
    /\ q.pc \in {"sent", "retrying"}
    /\ scenario' = ScenarioNext(scenario,
                       IF status = Unauthorized THEN "response401" ELSE "response")
    /\ UNCHANGED <<selectedCampusId, getAuthState, navigationResetToLogin,
                   issued>>
    /\ LET input == <<"response", status, q.attempts>>
           error == ErrorOf(status, q.attempts)
           originalRequest == q.config
       IN IF ShouldRefresh(error, originalRequest)
          THEN LET q1 == [q EXCEPT !.config = MarkRetried(originalRequest)]
               IN IF Truthy(authStore.refreshToken)
                  THEN LET q2 == [q1 EXCEPT !.pc = "refreshing",
                                            !.error = <<error>>,
                                            !.refreshSent =
                                                <<RefreshCall(authStore.refreshToken)>>,
                                            !.nRefresh = @ + 1]
                       IN /\ inflight' = (inflight (-) SetToBag({q}))
                                         (+) SetToBag({q2})
                          /\ event' = Exchange(input, q2)
                          /\ Watch(q, <<q2>>)
                          /\ UNCHANGED <<authStore, useAuth>>
                  ELSE ForceLogout(input, q, q1, error)
          ELSE IF q.pc = "retrying"
               THEN ForceLogout(input, q, q, q.error[1])
               ELSE /\ Settle(input, q, q, error)
                    /\ UNCHANGED authStore

\* async (error) => ... up to the await of the refresh exchange, or to the end
ResponseError(q, status) ==
    /\ q.pc \in {"sent", "retrying"}
    /\ scenario' = ScenarioNext(scenario,
                       IF status = Unauthorized THEN "response401" ELSE "response")
    /\ UNCHANGED <<selectedCampusId, getAuthState, navigationResetToLogin,
                   issued>>
    /\ LET input == <<"response", status, q.attempts>>
           error == ErrorOf(status, q.attempts)
           originalRequest == q.config
       IN IF ShouldRefresh(error, originalRequest)
          THEN LET q1 == [q EXCEPT !.config = MarkRetried(originalRequest)]
               IN IF Truthy(authStore.refreshToken)
                  THEN LET q2 == [q1 EXCEPT !.pc = "refreshing",
                                            !.error = <<error>>,
                                            !.refreshSent =
                                                <<RefreshCall(authStore.refreshToken)>>,
                                            !.nRefresh = @ + 1]
                       IN /\ inflight' = (inflight (-) SetToBag({q}))
                                         (+) SetToBag({q2})
                          /\ event' = Exchange(input, q2)
                          /\ Watch(q, <<q2>>)
                          /\ UNCHANGED <<authStore, useAuth>>
                  ELSE ForceLogout(input, q, q1, error)
          ELSE /\ Settle(input, q, q, error)
               /\ UNCHANGED authStore

\* mutant: the request is re-issued before the pair is stored
RefreshSuccessLateWrite(q) ==
    /\ q.pc = "refreshing"
    /\ issued < MaxPairs
    /\ issued' = issued + 1
    /\ LET accessToken == AccessOf(issued + 1)
           newRefreshToken == RefreshOf(issued + 1)
           s2 == setTokens(authStore, accessToken, newRefreshToken)
           c1 == [q.config EXCEPT !.Authorization = Bearer(accessToken)]
           c2 == Decorate(c1, getAuthState, authStore, selectedCampusId)
           q2 == [q EXCEPT !.pc = "retrying", !.config = c2,
                           !.refreshSent = None,
                           !.refreshPair = <<issued + 1>>,
                           !.attempts = @ + 1]
       IN /\ authStore' = s2
          /\ inflight' = (inflight (-) SetToBag({q})) (+) SetToBag({q2})
          /\ event' = Sent(<<"refresh", Ok, issued + 1,
                              q.refreshSent[1].refreshToken,
                              q.config.Authorization>>, q2)
          /\ Watch(q, <<q2>>)
    /\ scenario' = ScenarioNext(scenario, "refreshOk")
    /\ UNCHANGED <<selectedCampusId, getAuthState, navigationResetToLogin,
                   useAuth>>

\* mutant: the request is re-issued as it was sent, outside the client
RefreshSuccessNoRewrite(q) ==
    /\ q.pc = "refreshing"
    /\ issued < MaxPairs
    /\ issued' = issued + 1
    /\ LET accessToken == AccessOf(issued + 1)
           newRefreshToken == RefreshOf(issued + 1)
           s2 == setTokens(authStore, accessToken, newRefreshToken)
           c1 == [q.config EXCEPT !.Authorization = Bearer(accessToken)]
           c2 == q.config
           q2 == [q EXCEPT !.pc = "retrying", !.config = c2,
                           !.refreshSent = None,
                           !.refreshPair = <<issued + 1>>,
                           !.attempts = @ + 1]
       IN /\ authStore' = s2
          /\ inflight' = (inflight (-) SetToBag({q})) (+) SetToBag({q2})
          /\ event' = Sent(<<"refresh", Ok, issued + 1,
                              q.refreshSent[1].refreshToken,
                              q.config.Authorization>>, q2)
          /\ Watch(q, <<q2>>)
    /\ scenario' = ScenarioNext(scenario, "refreshOk")
    /\ UNCHANGED <<selectedCampusId, getAuthState, navigationResetToLogin,
                   useAuth>>

\* the refresh exchange answered with a new pair: setTokens, rewrite the
\* Authorization header, api(originalRequest)
RefreshSuccess(q) ==
    /\ q.pc = "refreshing"
    /\ issued < MaxPairs
    /\ issued' = issued + 1
    /\ LET accessToken == AccessOf(issued + 1)
           newRefreshToken == RefreshOf(issued + 1)
           s2 == setTokens(authStore, accessToken, newRefreshToken)
           c1 == [q.config EXCEPT !.Authorization = Bearer(accessToken)]
           c2 == Decorate(c1, getAuthState, s2, selectedCampusId)
           q2 == [q EXCEPT !.pc = "retrying", !.config = c2,
                           !.refreshSent = None,
                           !.refreshPair = <<issued + 1>>,
                           !.attempts = @ + 1]
       IN /\ authStore' = s2
          /\ inflight' = (inflight (-) SetToBag({q})) (+) SetToBag({q2})
          /\ event' = Sent(<<"refresh", Ok, issued + 1,
                              q.refreshSent[1].refreshToken,
                              q.config.Authorization>>, q2)
          /\ Watch(q, <<q2>>)
    /\ scenario' = ScenarioNext(scenario, "refreshOk")
    /\ UNCHANGED <<selectedCampusId, getAuthState, navigationResetToLogin,
                   useAuth>>

\* mutant: the catch branch rethrows what it caught
RefreshFailureRethrow(q, status) ==
    /\ q.pc = "refreshing"
    /\ ForceLogout(<<"refresh", status, 0>>, q, q, RefreshErrorOf(status))
    /\ scenario' = ScenarioNext(scenario, "refreshFail")
    /\ UNCHANGED <<selectedCampusId, getAuthState, navigationResetToLogin,
                   issued>>

\* mutant: the failure of the exchange is swallowed and the handler never
\* returns
RefreshFailureHangs(q, status) ==
    /\ q.pc = "refreshing"
    /\ event' = None
    /\ scenario' = ScenarioNext(scenario, "refreshFail")
    /\ UNCHANGED <<authStore, selectedCampusId, getAuthState,
                   navigationResetToLogin, issued, inflight, watch, useAuth>>

\* the refresh exchange failed (rejected, or no response): the catch branch
RefreshFailure(q, status) ==
    /\ q.pc = "refreshing"
    /\ ForceLogout(<<"refresh", status, 0>>, q, q, q.error[1])
    /\ scenario' = ScenarioNext(scenario, "refreshFail")
    /\ UNCHANGED <<selectedCampusId, getAuthState, navigationResetToLogin,
                   issued>>

----------------------------------------------------------------------------

Next ==
    \/ \E c \in CampusIds \cup {None} : SetSelectedCampusId(c)
    \/ SetAuthStoreGetter
    \/ SetNavigationResetToLogin
    \/ \E u \in Users : Login(u)
    \/ Logout
    \/ \E body \in Bodies : Request(body)
    \/ \E q \in Pending : ResponseSuccess(q)
    \/ \E q \in Pending, status \in ErrorKinds : ResponseError(q, status)
    \/ \E q \in Pending : RefreshSuccess(q)
    \/ \E q \in Pending, status \in ErrorKinds : RefreshFailure(q, status)

Spec == Init /\ [][Next]_vars

\* the transport answers the call it holds for the followed request: the
\* request itself or its refresh exchange, with a response or an error
TransportReturns ==
    \E q \in Pending :
        /\ watch.request = <<q>>
        /\ \/ ResponseSuccess(q)
           \/ \E status \in ErrorKinds : ResponseError(q, status)
           \/ RefreshSuccess(q)
           \/ \E status \in ErrorKinds : RefreshFailure(q, status)
        /\ watch'.request # watch.request

\* every transport call eventually returns; the followed request is any
\* request, so this is fairness for each request
SpecFair == InitWatching /\ [][Next]_vars /\ WF_vars(TransportReturns)

----------------------------------------------------------------------------
(* hooks/useAuth.ts: login and logout, as the screens call them *)

\* the body of a login response: the backend's envelope, with or without
\* data and message
LoginEnvelopes == [success : BOOLEAN, data : BOOLEAN, message : {None, <<"msg">>}]

\* response.message || 'Login failed'
LoginMessage(response) ==
    IF Truthy(response.message) THEN response.message ELSE <<"Login failed">>

\* error.response?.data?.message || 'Unable to connect. Please try again.'
CatchMessage(message) ==
    IF Truthy(message) THEN message
    ELSE <<"Unable to connect. Please try again.">>

\* the messages an error may carry: none without a response
ErrorMessages(error) ==
    IF error.status = NoResponse THEN {None} ELSE {None, <<"msg">>}

\* login(data) up to await authApi.login(data); the login screen is
\* rendered only while the session is not authenticated
UseAuthLogin ==
    /\ useAuth.op = None
    /\ ~authStore.isAuthenticated
    /\ BagCardinality(inflight) < MaxInFlight
    /\ LET q == NewRequest(RequestInterceptor(AuthApiLogin))
       IN /\ inflight' = inflight (+) SetToBag({q})
          /\ event' = Sent(<<"call">>, q)
          /\ WatchNew(q)
    /\ useAuth' = [op |-> <<"login">>, result |-> None]
    /\ scenario' = ScenarioNext(scenario, "request")
    /\ UNCHANGED <<authStore, selectedCampusId, getAuthState,
                   navigationResetToLogin, issued>>

\* mutant: the credentials of a response are stored whatever it reports
UseAuthLoginReturnStoresAlways(u, response, message) ==
    /\ useAuth.op = <<"login">>
    /\ useAuth.result # None
    /\ useAuth' = [op |-> None, result |-> None]
    /\ LET outcome == useAuth.result[1]
       IN IF outcome.result.ok
          THEN /\ message = None
               /\ issued < MaxPairs
               /\ issued' = issued + 1
               /\ authStore' = login(authStore, u, AccessOf(issued + 1),
                                     RefreshOf(issued + 1))
               /\ event' = Returned(<<"login", <<response>>, issued + 1>>,
                                    outcome.request,
                                    [success |-> response.success /\ response.data,
                                     message |-> IF response.success /\ response.data
                                                 THEN None
                                                 ELSE LoginMessage(response)])
          ELSE /\ message \in ErrorMessages(outcome.result)
               /\ event' = Returned(<<"login", None, 0>>, outcome.request,
                                    [success |-> FALSE,
                                     message |-> CatchMessage(message)])
               /\ UNCHANGED <<authStore, issued>>
    /\ scenario' = ScenarioNext(scenario, "login")
    /\ UNCHANGED <<selectedCampusId, getAuthState, navigationResetToLogin,
                   inflight, watch>>

\* login(data) from the return of authApi.login(data): the response's
\* envelope, or the error caught
UseAuthLoginReturn(u, response, message) ==
    /\ useAuth.op = <<"login">>
    /\ useAuth.result # None
    /\ useAuth' = [op |-> None, result |-> None]
    /\ LET outcome == useAuth.result[1]
       IN IF outcome.result.ok
          THEN /\ message = None
               /\ IF response.success /\ response.data
                  THEN /\ issued < MaxPairs
                       /\ issued' = issued + 1
                       /\ authStore' = login(authStore, u, AccessOf(issued + 1),
                                             RefreshOf(issued + 1))
                       /\ event' = Returned(<<"login", <<response>>, issued + 1>>,
                                            outcome.request,
                                            [success |-> TRUE, message |-> None])
                  ELSE /\ event' = Returned(<<"login", <<response>>, 0>>,
                                            outcome.request,
                                            [success |-> FALSE,
                                             message |-> LoginMessage(response)])
                       /\ UNCHANGED <<authStore, issued>>
          ELSE /\ message \in ErrorMessages(outcome.result)
               /\ event' = Returned(<<"login", None, 0>>, outcome.request,
                                    [success |-> FALSE,
                                     message |-> CatchMessage(message)])
               /\ UNCHANGED <<authStore, issued>>
    /\ scenario' = ScenarioNext(scenario, "login")
    /\ UNCHANGED <<selectedCampusId, getAuthState, navigationResetToLogin,
                   inflight, watch>>

\* logout() up to await authApi.logout(refreshToken), or to its end when no
\* refresh credential is held
UseAuthLogout ==
    /\ useAuth.op = None
    /\ LET refreshToken == authStore.refreshToken
       IN IF Truthy(refreshToken)
          THEN /\ BagCardinality(inflight) < MaxInFlight
               /\ LET q == NewRequest(RequestInterceptor(AuthApiLogout(refreshToken)))
                  IN /\ inflight' = inflight (+) SetToBag({q})
                     /\ event' = Sent(<<"call">>, q)
                     /\ WatchNew(q)
               /\ useAuth' = [op |-> <<"logout">>, result |-> None]
               /\ UNCHANGED authStore
          ELSE /\ authStore' = logout(authStore)
               /\ event' = Returned(<<"logout", None, 0>>, NoCall,
                                    [success |-> TRUE, message |-> None])
               /\ UNCHANGED <<inflight, watch, useAuth>>
    /\ scenario' = ScenarioNext(scenario, "logout")
    /\ UNCHANGED <<selectedCampusId, getAuthState, navigationResetToLogin,
                   issued>>

\* mutant: the session is cleared only when the API call succeeded
UseAuthLogoutReturnNoFinally ==
    /\ useAuth.op = <<"logout">>
    /\ useAuth.result # None
    /\ useAuth' = [op |-> None, result |-> None]
    /\ authStore' = IF useAuth.result[1].result.ok THEN logout(authStore)
                    ELSE authStore
    /\ event' = Returned(<<"logout", None, 0>>, useAuth.result[1].request,
                         [success |-> TRUE, message |-> None])
    /\ scenario' = ScenarioNext(scenario, "logout")
    /\ UNCHANGED <<selectedCampusId, getAuthState, navigationResetToLogin,
                   inflight, issued, watch>>

\* logout() from the return of authApi.logout(refreshToken): the error is
\* ignored, and finally storeLogout()
UseAuthLogoutReturn ==
    /\ useAuth.op = <<"logout">>
    /\ useAuth.result # None
    /\ useAuth' = [op |-> None, result |-> None]
    /\ authStore' = logout(authStore)
    /\ event' = Returned(<<"logout", None, 0>>, useAuth.result[1].request,
                         [success |-> TRUE, message |-> None])
    /\ scenario' = ScenarioNext(scenario, "logout")
    /\ UNCHANGED <<selectedCampusId, getAuthState, navigationResetToLogin,
                   inflight, issued, watch>>

\* the application once RootNavigator is past its hydration gate and its
\* effect has installed the getter, with nothing restored from storage; no
\* module of the application installs a navigation reset or a campus, and
\* the scenario monitor is off
InitUseAuth ==
    /\ authStore = setHydrated(AuthInit, TRUE)
    /\ selectedCampusId = None
    /\ getAuthState = <<"store">>
    /\ navigationResetToLogin = None
    /\ inflight = EmptyBag
    /\ event = None
    /\ issued = 0
    /\ scenario = "off"
    /\ watch = [on |-> FALSE, request |-> None]
    /\ useAuth = [op |-> None, result |-> None]

\* the application with the screens' calls of login and logout
NextUseAuth ==
    \/ UseAuthLogin
    \/ \E u \in Users, response \in LoginEnvelopes, message \in {None, <<"msg">>} :
           UseAuthLoginReturn(u, response, message)
    \/ UseAuthLogout
    \/ UseAuthLogoutReturn
    \/ \E body \in Bodies : Request(body)
    \/ \E q \in Pending : ResponseSuccess(q)
    \/ \E q \in Pending, status \in ErrorKinds : ResponseError(q, status)
    \/ \E q \in Pending : RefreshSuccess(q)
    \/ \E q \in Pending, status \in ErrorKinds : RefreshFailure(q, status)

SpecUseAuth == InitUseAuth /\ [][NextUseAuth]_vars

----------------------------------------------------------------------------
(* Properties *)

\* the step just taken handed a request to the transport
IsSent == event # None /\ event[1].type = "sent"

\* the step just taken settled a caller's promise
IsSettled == event # None /\ event[1].type = "settled"

\* the step just taken was given a failure response of the transport for a
\* request's attempt
FailedWith(status) ==
    event # None /\ event[1].input[1] = "response" /\ event[1].input[2] = status

\* the step just taken was given the failure of a refresh exchange
RefreshFailed ==
    event # None /\ event[1].input[1] = "refresh" /\ event[1].input[2] # 200

\* the session is the logged-out one
Cleared(s) ==
    /\ s.user = <<>>
    /\ s.accessToken = <<>>
    /\ s.refreshToken = <<>>
    /\ s.isAuthenticated = FALSE

\* the step just taken left the two modules' state alone
ModulesUntouched ==
    /\ event[1].before.authStore = authStore
    /\ event[1].before.selectedCampusId = selectedCampusId
    /\ event[1].before.getAuthState = getAuthState
    /\ event[1].before.navigationResetToLogin = navigationResetToLogin

\* the configs a request can carry into the request interceptor
Configs ==
    [body : Bodies, ContentType : {<<"application/json">>},
     Authorization : {<<>>, <<"Bearer", <<"A", 1>>>>, <<"Bearer", <<"A", 2>>>>},
     XCampusId : {<<>>} \cup CampusIds, retry : BOOLEAN]

\* C1: when the refresh exchange started for a 401 returns a new pair, the
\* store holds exactly that pair, the original request is re-issued once
\* with "Bearer <new access credential>", and nobody is logged out or sent
\* to the login screen on its behalf
C1_RefreshThenRetry ==
    (event # None /\ event[1].input[1] = "refresh" /\ event[1].input[2] = 200)
    => LET n == event[1].input[3]
           q == event[1].request
       IN /\ event[1].type = "sent"
          /\ authStore.accessToken = <<"A", n>>
          /\ authStore.refreshToken = <<"R", n>>
          /\ authStore.user = event[1].before.authStore.user
          /\ authStore.isAuthenticated = event[1].before.authStore.isAuthenticated
          /\ q.config.Authorization = <<"Bearer", <<"A", n>>>>
          /\ q.config.retry
          /\ q.attempts = 2 /\ q.nRefresh = 1
          /\ q.nLogout = 0 /\ q.nNav = 0
          /\ BagIn(q, inflight)

C1_Witness ==
    /\ IsSent
    /\ event[1].input[1] = "refresh"
    /\ event[1].before.authStore.accessToken = <<"A", 1>>
    /\ authStore.accessToken = <<"A", 2>>
    /\ event[1].request.config.Authorization = <<"Bearer", <<"A", 2>>>>

\* C2: a request gets at most one refresh exchange and at most one retry;
\* the failure of a retry, 401 included, is what its caller gets, with no
\* further exchange
C2_AtMostOneRetry ==
    /\ \A q \in Pending : q.nRefresh <= 1 /\ q.attempts <= 2
    /\ event # None
       => /\ event[1].request.nRefresh <= 1
          /\ event[1].request.attempts <= 2
    /\ (event # None /\ event[1].input[1] = "response"
          /\ event[1].input[2] # 200 /\ event[1].input[3] = 2)
       => /\ event[1].type = "settled"
          /\ event[1].result[1] =
                [ok |-> FALSE, of |-> "request", status |-> event[1].input[2],
                 attempt |-> 2]
          /\ event[1].request.nRefresh = 1

C2_Witness ==
    /\ IsSettled
    /\ event[1].input = <<"response", 401, 2>>
    /\ event[1].request.nRefresh = 1
    /\ event[1].before.getAuthState # <<>>
    /\ event[1].before.authStore.refreshToken # <<>>

\* C3 as stated: a 401 while the session holds no refresh credential logs
\* the user out and invokes the navigation callback exactly once
C3_Original ==
    (FailedWith(401) /\ event[1].before.authStore.refreshToken = <<>>)
    => /\ event[1].type = "settled"
       /\ event[1].request.nLogout = 1
       /\ event[1].request.nNav = 1

\* C3: when a request that has not been retried fails with 401 while the
\* getter is installed and the session holds no refresh credential, no
\* exchange and no retry happen, the session is cleared, the navigation
\* callback is invoked once if one is installed, and the caller gets the
\* original 401
C3_NoRefreshCredential ==
    (/\ FailedWith(401)
     /\ event[1].input[3] = 1
     /\ event[1].before.getAuthState # <<>>
     /\ event[1].before.authStore.refreshToken = <<>>)
    => /\ event[1].type = "settled"
       /\ event[1].request.nRefresh = 0
       /\ event[1].request.attempts = 1
       /\ event[1].request.nLogout = 1
       /\ event[1].request.nNav =
             IF event[1].before.navigationResetToLogin # <<>> THEN 1 ELSE 0
       /\ Cleared(authStore)
       /\ event[1].result[1] =
             [ok |-> FALSE, of |-> "request", status |-> 401, attempt |-> 1]

C3_Witness ==
    /\ IsSettled
    /\ event[1].input = <<"response", 401, 1>>
    /\ event[1].before.getAuthState # <<>>
    /\ event[1].before.authStore.refreshToken = <<>>
    /\ event[1].before.authStore.accessToken = <<>>
    /\ event[1].before.navigationResetToLogin # <<>>
    /\ event[1].request.nNav = 1

\* C4 as stated: a failed refresh exchange logs the user out and invokes the
\* navigation callback exactly once
C4_Original ==
    RefreshFailed
    => /\ event[1].type = "settled"
       /\ event[1].request.nLogout = 1
       /\ event[1].request.nNav = 1

\* C4: when the refresh exchange fails, rejected or without a response, the
\* session is cleared, the navigation callback is invoked once if one is
\* installed, the request is not retried, and the caller gets the original
\* 401, not the failure of the exchange
C4_RefreshFails ==
    RefreshFailed
    => /\ event[1].type = "settled"
       /\ event[1].request.nRefresh = 1
       /\ event[1].request.attempts = 1
       /\ event[1].request.nLogout = 1
       /\ event[1].request.nNav =
             IF event[1].before.navigationResetToLogin # <<>> THEN 1 ELSE 0
       /\ Cleared(authStore)
       /\ event[1].result[1] =
             [ok |-> FALSE, of |-> "request", status |-> 401, attempt |-> 1]

C4_Witness ==
    /\ IsSettled
    /\ event[1].input = <<"refresh", 500, 0>>
    /\ event[1].before.authStore.accessToken # <<>>
    /\ event[1].before.navigationResetToLogin # <<>>
    /\ event[1].request.nNav = 1
    /\ Cleared(authStore)

\* C5: log in, one request, 401: the refresh exchange is started with the
\* refresh credential of the login; when it returns a pair,
\* the request has been re-issued exactly once with the new bearer header
\* and the store holds the new pair; and when the retry is answered,
\* whatever the answer, no further refresh has happened
C5_LoginToRecovery ==
    /\ scenario = "refreshed"
       => /\ authStore.accessToken = <<"A", 2>>
          /\ authStore.refreshToken = <<"R", 2>>
          /\ authStore.isAuthenticated
          /\ \A q \in Pending :
                /\ q.pc = "retrying"
                /\ q.attempts = 2
                /\ q.nRefresh = 1
                /\ q.config.Authorization = <<"Bearer", <<"A", 2>>>>
          /\ BagCardinality(inflight) = 1
    /\ scenario = "failed401"
       => \A q \in Pending :
             /\ q.pc = "refreshing"
             /\ q.refreshSent[1].refreshToken = <<"R", 1>>
             /\ q.attempts = 1
    /\ scenario = "finished"
       => /\ inflight = EmptyBag
          /\ issued = 2
          /\ authStore.accessToken = <<"A", 2>>
          /\ authStore.refreshToken = <<"R", 2>>
          /\ IsSettled
             => /\ event[1].request.attempts = 2
                /\ event[1].request.nRefresh = 1
                /\ event[1].request.nLogout = 0
                /\ event[1].result[1].attempt = 2

C5_Witness ==
    /\ scenario = "finished"
    /\ IsSettled
    /\ event[1].input = <<"response", 401, 2>>

\* C6 as stated: a request sent while the session holds an access
\* credential carries "Bearer <that credential>"
C6_Original ==
    (IsSent /\ authStore.accessToken # <<>>)
    => event[1].request.config.Authorization = <<"Bearer", authStore.accessToken>>

\* C6: a request sent while the getter is installed and the session holds
\* an access credential carries "Bearer <that credential>"
C6_BearerHeader ==
    (IsSent /\ getAuthState # <<>> /\ authStore.accessToken # <<>>)
    => event[1].request.config.Authorization = <<"Bearer", authStore.accessToken>>

C6_Witness ==
    /\ IsSent
    /\ event[1].input = <<"call">>
    /\ getAuthState # <<>>
    /\ authStore.accessToken = <<"A", 2>>
    /\ event[1].request.config.Authorization = <<"Bearer", <<"A", 2>>>>

\* C7: every request sent carries the X-Campus-Id header with the selected
\* campus identifier when one is set, and no such header when none is set
C7_CampusHeader ==
    IsSent => event[1].request.config.XCampusId = selectedCampusId

\* C8: decorating a request twice under the same session and campus
\* identifier gives the same headers as decorating it once
C8_DecorationIdempotent ==
    \A config \in Configs :
        RequestInterceptor(RequestInterceptor(config)) = RequestInterceptor(config)

C8_Witness ==
    /\ getAuthState # <<>>
    /\ authStore.accessToken # <<>>
    /\ selectedCampusId # <<>>
    /\ \E config \in Configs :
          /\ RequestInterceptor(config).Authorization # config.Authorization
          /\ RequestInterceptor(config).XCampusId # config.XCampusId

\* C9: decoration writes nothing but the Authorization and X-Campus-Id
\* headers of the request: body, other headers and the retry flag stay, and
\* sending a request changes neither the session nor the campus identifier
\* nor the installed callbacks
C9_DecorationFrame ==
    /\ \A config \in Configs :
          /\ RequestInterceptor(config).body = config.body
          /\ RequestInterceptor(config).ContentType = config.ContentType
          /\ RequestInterceptor(config).retry = config.retry
    /\ (IsSent /\ event[1].input = <<"call">>)
       => /\ ModulesUntouched
          /\ event[1].request.config.body \in Bodies
          /\ event[1].request.config.ContentType = <<"application/json">>
          /\ event[1].request.config.retry = FALSE
          /\ event[1].request.nRefresh = 0
          /\ event[1].request.nLogout = 0
          /\ event[1].request.nNav = 0

C9_Witness ==
    /\ IsSent
    /\ event[1].input = <<"call">>
    /\ event[1].request.config.Authorization # <<>>
    /\ event[1].request.config.XCampusId # <<>>

\* C10: a failure that is not a 401 (another status, or no response at all)
\* goes to the caller as it is: no refresh exchange, no retry, no logout,
\* no navigation, the session untouched
C10_OtherFailuresPassThrough ==
    (FailedWith(500) \/ FailedWith(0))
    => /\ event[1].type = "settled"
       /\ event[1].result[1] =
             [ok |-> FALSE, of |-> "request", status |-> event[1].input[2],
              attempt |-> event[1].input[3]]
       /\ event[1].request.attempts = event[1].input[3]
       /\ event[1].request.nRefresh = event[1].input[3] - 1
       /\ event[1].request.nLogout = 0
       /\ event[1].request.nNav = 0
       /\ ModulesUntouched

C10_Witness ==
    /\ IsSettled
    /\ event[1].input = <<"response", 0, 1>>
    /\ event[1].before.getAuthState # <<>>
    /\ event[1].before.authStore.refreshToken # <<>>
    /\ event[1].request.retry = FALSE

\* C11: when a request fails with 401, its refresh exchange succeeds and
\* the retry succeeds, the caller gets the response of the retry; while the
\* exchange is started and while the retry is issued nothing is delivered,
\* so the caller never sees the 401
C11_RecoveryInvisible ==
    /\ (event # None /\ event[1].type \in {"exchange", "sent"})
       => /\ event[1].result = <<>>
          /\ BagIn(event[1].request, inflight)
    /\ (event # None /\ event[1].input = <<"response", 200, 2>>)
       => /\ event[1].type = "settled"
          /\ event[1].result[1] =
                [ok |-> TRUE, of |-> "request", status |-> 200, attempt |-> 2]
          /\ event[1].request.nRefresh = 1
          /\ event[1].request.nLogout = 0
          /\ event[1].request.calls = <<"resolve">>

C11_Witness ==
    /\ IsSettled
    /\ event[1].input = <<"response", 200, 2>>
    /\ event[1].result[1].ok
    /\ event[1].request.retry

\* C12: what the caller of a retried request gets is the outcome of the
\* retry: its response when it succeeds, its own error when it fails (a 401
\* included), and handling that outcome starts no exchange, logs nobody out
\* and changes nothing in the two modules
C12_RetryOutcomeDelivered ==
    (event # None /\ event[1].input[1] = "response" /\ event[1].input[3] = 2)
    => /\ event[1].type = "settled"
       /\ event[1].result[1] =
             [ok |-> event[1].input[2] = 200, of |-> "request",
              status |-> event[1].input[2], attempt |-> 2]
       /\ event[1].request.attempts = 2
       /\ event[1].request.nRefresh = 1
       /\ event[1].request.nLogout = 0
       /\ event[1].request.nNav = 0
       /\ ModulesUntouched

C12_Witness ==
    /\ IsSettled
    /\ event[1].input = <<"response", 500, 2>>
    /\ event[1].result[1].status = 500
    /\ event[1].result[1].attempt = 2

\* C13: a retry issued while a campus identifier is set carries
\* X-Campus-Id equal to that identifier
C13_RetryCarriesCampus ==
    (IsSent /\ event[1].input[1] = "refresh" /\ selectedCampusId # <<>>)
    => /\ event[1].request.config.XCampusId = selectedCampusId
       /\ event[1].request.attempts = 2

C13_Witness ==
    /\ IsSent
    /\ event[1].input[1] = "refresh"
    /\ selectedCampusId = <<"c1">>
    /\ event[1].request.config.XCampusId = <<"c1">>
    /\ event[1].request.config.retry

\* C14: 401 failures are not coalesced: every first attempt that fails with
\* 401 while the getter is installed and the session holds a refresh
\* credential starts a refresh exchange of its own, whatever exchanges other
\* requests are awaiting, and every exchange that succeeds is followed by
\* the retry of its own request
C14_NotCoalesced ==
    /\ (/\ FailedWith(401)
        /\ event[1].input[3] = 1
        /\ event[1].before.getAuthState # <<>>
        /\ event[1].before.authStore.refreshToken # <<>>)
       => /\ event[1].type = "exchange"
          /\ event[1].request.pc = "refreshing"
          /\ event[1].request.nRefresh = 1
          /\ event[1].request.attempts = 1
          /\ event[1].request.refreshSent[1].refreshToken =
                event[1].before.authStore.refreshToken
          /\ BagIn(event[1].request, inflight)
    /\ (IsSent /\ event[1].input[1] = "refresh")
       => /\ event[1].request.pc = "retrying"
          /\ event[1].request.attempts = 2
          /\ event[1].request.nRefresh = 1
          /\ event[1].request.refreshPair = <<event[1].input[3]>>
          /\ BagIn(event[1].request, inflight)

C14_Witness ==
    /\ event # <<>>
    /\ event[1].type = "exchange"
    /\ BagCardinality(inflight) = 2
    /\ \A q \in Pending : q.pc = "refreshing" /\ q.nRefresh = 1

\* C15: the session always holds the two credentials of one and the same
\* pair, and after a refresh exchange has succeeded it holds the pair that
\* exchange returned: of two concurrent exchanges, the pair of the one
\* processed last
C15_LastPairWins ==
    /\ (authStore.accessToken = <<>>) <=> (authStore.refreshToken = <<>>)
    /\ \A n \in 1..issued :
          (authStore.accessToken = <<"A", n>>) <=> (authStore.refreshToken = <<"R", n>>)
    /\ (event # None /\ event[1].input[1] = "refresh" /\ event[1].input[2] = 200)
       => /\ event[1].input[3] = issued
          /\ authStore.accessToken = <<"A", issued>>
          /\ authStore.refreshToken = <<"R", issued>>

C15_Witness ==
    /\ event # <<>>
    /\ event[1].input[1] = "refresh"
    /\ event[1].input[3] = 3
    /\ event[1].input[4] = <<"R", 1>>
    /\ \E q \in Pending : q.refreshPair = <<2>>
    /\ authStore.accessToken = <<"A", 3>>
    /\ authStore.refreshToken = <<"R", 3>>

\* C16: a step changes accessToken or refreshToken only if it is a login,
\* a logout (called by the application or by the response handler on a
\* terminal failure) or the success path of a refresh exchange; sending a
\* request, passing a response or an error through, starting an exchange
\* and the module setters leave both as they are, and so do setUser and
\* setHydrated
C16_CredentialWriters ==
    /\ [](\A u \in Users \cup {None}, h \in BOOLEAN :
             /\ setUser(authStore, u).accessToken = authStore.accessToken
             /\ setUser(authStore, u).refreshToken = authStore.refreshToken
             /\ setHydrated(authStore, h).accessToken = authStore.accessToken
             /\ setHydrated(authStore, h).refreshToken = authStore.refreshToken)
    /\ [][(\/ authStore'.accessToken # authStore.accessToken
           \/ authStore'.refreshToken # authStore.refreshToken)
          => \/ \E u \in Users : Login(u)
             \/ Logout
             \/ \E q \in Pending : RefreshSuccess(q)
             \/ /\ event' # None
                /\ event'[1].type = "settled"
                /\ event'[1].request.nLogout = 1
                /\ authStore' = logout(authStore)]_vars

C16_Witness ==
    /\ IsSettled
    /\ event[1].input = <<"response", 500, 1>>
    /\ authStore.accessToken = <<"A", 2>>
    /\ authStore.refreshToken = <<"R", 2>>
    /\ event[1].before.authStore = authStore
    /\ selectedCampusId # <<>>

\* C18: the refresh exchange is sent outside the intercepted client: its
\* message carries the refresh credential of the session and neither an
\* Authorization nor an X-Campus-Id header; and when the exchange fails,
\* with 401 or otherwise, no further exchange and no retry follow: the user
\* is logged out and the request settles
C18_RefreshNotIntercepted ==
    /\ \A q \in Pending :
          q.pc = "refreshing"
          => /\ q.refreshSent[1].Authorization = <<>>
             /\ q.refreshSent[1].XCampusId = <<>>
    /\ (event # None /\ event[1].type = "exchange")
       => event[1].request.refreshSent[1] =
             [refreshToken |-> event[1].before.authStore.refreshToken,
              Authorization |-> <<>>, XCampusId |-> <<>>]
    /\ RefreshFailed
       => /\ event[1].type = "settled"
          /\ event[1].request.nRefresh = 1
          /\ event[1].request.attempts = 1
          /\ event[1].request.nLogout = 1
          /\ event[1].request.nNav <= 1
          /\ Cleared(authStore)

C18_Witness ==
    /\ event # <<>>
    /\ event[1].type = "exchange"
    /\ authStore.accessToken # <<>>
    /\ selectedCampusId # <<>>
    /\ event[1].request.config.Authorization # <<>>
    /\ event[1].request.config.XCampusId # <<>>

C20_WriteBeforeRetry ==
    (IsSent /\ event[1].input[1] = "refresh")
    => /\ authStore.accessToken = <<"A", event[1].input[3]>>
       /\ authStore.refreshToken = <<"R", event[1].input[3]>>
       /\ event[1].before.authStore.accessToken # authStore.accessToken
       /\ RequestInterceptor(event[1].request.config) = event[1].request.config
       /\ event[1].request.config.Authorization =
             <<"Bearer", authStore.accessToken>>

C20_Witness ==
    /\ IsSent
    /\ event[1].input[1] = "refresh"
    /\ event[1].input[3] = 3
    /\ event[1].input[4] = <<"R", 2>>
    /\ event[1].before.authStore.accessToken = <<"A", 2>>
    /\ authStore.accessToken = <<"A", 3>>

\* the transport calls made so far on behalf of a request: its attempts and
\* its refresh exchanges
TransportCalls(q) == q.attempts + q.nRefresh

\* C17: recover once, then surface: at most three transport calls are made
\* on behalf of a request (the original, one refresh exchange, one retry),
\* and, provided every transport call returns, every request issued
\* eventually settles to its caller
C17_RecoverOnceThenSurface ==
    /\ [](/\ \A q \in Pending : TransportCalls(q) <= 3
          /\ IsSettled => TransportCalls(event[1].request) <= 3)
    /\ (watch.request # None) ~> (watch.request = None)

C17_Witness ==
    /\ watch.on
    /\ watch.request = <<>>
    /\ IsSettled
    /\ event[1].request.attempts = 2
    /\ event[1].request.nRefresh = 1
    /\ inflight = EmptyBag

\* C21: the refresh exchange started for a 401 sends the refresh credential
\* the session holds when the 401 is handled, whatever the session held
\* when the failing request was sent: after another handler's refresh has
\* completed, it is the new one
C21_RefreshSendsCurrentCredential ==
    /\ (event # None /\ event[1].type = "exchange")
       => /\ event[1].request.refreshSent[1].refreshToken = authStore.refreshToken
          /\ authStore = event[1].before.authStore
    /\ \A q \in Pending :
          q.pc = "refreshing"
          => \E n \in 1..issued : q.refreshSent[1].refreshToken = <<"R", n>>

C21_Witness ==
    /\ event # <<>>
    /\ event[1].type = "exchange"
    /\ event[1].request.config.Authorization = <<"Bearer", <<"A", 1>>>>
    /\ event[1].request.refreshSent[1].refreshToken = <<"R", 2>>
    /\ \E q \in Pending : q.refreshPair = <<2>>

\* C22: the X-Campus-Id header of a retry is the campus identifier at the
\* time of the retry: the identifier when one is set, no header when none
\* is set
C22_RetryCampusCurrent ==
    (IsSent /\ event[1].input[1] = "refresh")
    => event[1].request.config.XCampusId = selectedCampusId

\* C23: accessToken and refreshToken are non-null only while
\* isAuthenticated is true
C23_CredentialsOnlyWhenAuthenticated ==
    (authStore.accessToken # <<>> \/ authStore.refreshToken # <<>>)
    => authStore.isAuthenticated

\* C24: the failure of a retry, with 401 or any other error, invokes
\* neither logout nor the navigation reset and leaves the session as it is
C24_RetryFailureKeepsSession ==
    (/\ event # None
     /\ event[1].input[1] = "response"
     /\ event[1].input[2] # 200
     /\ event[1].input[3] = 2)
    => /\ event[1].type = "settled"
       /\ event[1].request.calls = <<"reject">>
       /\ event[1].request.nLogout = 0
       /\ event[1].request.nNav = 0
       /\ authStore = event[1].before.authStore

C24_Witness ==
    /\ IsSettled
    /\ event[1].input = <<"response", 0, 2>>
    /\ authStore.accessToken = <<"A", 2>>
    /\ authStore.refreshToken = <<"R", 2>>
    /\ authStore.isAuthenticated

\* C25: the response interceptor calls logout for a terminal session
\* failure only: for a request whose first attempt failed with 401 and
\* which either found no refresh credential in the session or saw its
\* refresh exchange fail; never for a response, for a failure other than
\* 401 or for the failure of a retry, and at most once for a request
C25_LogoutOnlyOnTerminalFailure ==
    /\ \A q \in Pending : q.nLogout = 0 /\ q.calls = <<>>
    /\ IsSettled
       => /\ event[1].request.nLogout <= 1
          /\ event[1].request.nLogout = 1
             => /\ event[1].request.attempts = 1
                /\ event[1].result[1] =
                      [ok |-> FALSE, of |-> "request", status |-> 401,
                       attempt |-> 1]
                /\ \/ /\ event[1].input = <<"response", 401, 1>>
                      /\ event[1].before.authStore.refreshToken = <<>>
                      /\ event[1].request.nRefresh = 0
                   \/ /\ event[1].input[1] = "refresh"
                      /\ event[1].input[2] # 200
                      /\ event[1].request.nRefresh = 1
          /\ event[1].request.nLogout = 0
             => /\ event[1].request.nNav = 0
                /\ authStore = event[1].before.authStore

C25_Witness ==
    /\ IsSettled
    /\ event[1].request.nLogout = 1
    /\ event[1].input = <<"refresh", 401, 0>>
    /\ event[1].before.authStore.isAuthenticated
    /\ ~authStore.isAuthenticated

\* C26: while no getter is installed, a request is sent without an
\* Authorization header, and a 401 goes to the caller as it is: no refresh
\* exchange, no retry, no logout, no navigation reset, and the request is
\* not marked as retried
C26_NoGetterNoProtocol ==
    /\ (IsSent /\ getAuthState = <<>>)
       => /\ event[1].request.config.Authorization = <<>>
          /\ event[1].input = <<"call">>
    /\ (FailedWith(401) /\ getAuthState = <<>>)
       => /\ event[1].type = "settled"
          /\ event[1].result[1] =
                [ok |-> FALSE, of |-> "request", status |-> 401, attempt |-> 1]
          /\ event[1].request.nRefresh = 0
          /\ event[1].request.attempts = 1
          /\ event[1].request.nLogout = 0
          /\ event[1].request.nNav = 0
          /\ event[1].request.retry = FALSE
          /\ ModulesUntouched

C26_Witness ==
    /\ IsSettled
    /\ event[1].input = <<"response", 401, 1>>
    /\ getAuthState = <<>>
    /\ authStore.refreshToken # <<>>
    /\ navigationResetToLogin # <<>>

\* C27: a retry never carries the access credential that was rejected: its
\* Authorization header is Bearer followed by the access credential its own
\* refresh exchange returned, which is also the one the session holds when
\* the retry is decorated
C27_RetryCarriesFreshCredential ==
    (IsSent /\ event[1].input[1] = "refresh")
    => /\ event[1].request.config.Authorization # event[1].input[5]
       /\ \/ event[1].request.config.Authorization =
                <<"Bearer", <<"A", event[1].input[3]>>>>
          \/ event[1].request.config.Authorization =
                <<"Bearer", authStore.accessToken>>
       /\ \A n \in 1..(event[1].input[3] - 1) :
             event[1].request.config.Authorization # <<"Bearer", <<"A", n>>>>

C27_Witness ==
    /\ IsSent
    /\ event[1].input[1] = "refresh"
    /\ event[1].input[5] = <<"Bearer", <<"A", 1>>>>
    /\ event[1].before.authStore.accessToken = <<>>
    /\ event[1].request.config.Authorization = <<"Bearer", <<"A", 2>>>>

\* the step just taken was the end of a call of useAuth's op
HasReturned(op) ==
    event # None /\ event[1].type = "returned" /\ event[1].input[1] = op

\* C28: useAuth.logout always ends with the local session cleared, whether
\* its API call succeeded, failed or was skipped for want of a refresh
\* credential, and whatever a refresh triggered by that call wrote to the
\* session meanwhile
C28_LogoutAlwaysClears ==
    HasReturned("logout") => Cleared(authStore)

\* the logout call got a 401, its refresh exchange wrote a new pair, its
\* retry failed, and the session was cleared all the same
C28_Witness ==
    /\ HasReturned("logout")
    /\ event[1].request.nRefresh = 1
    /\ event[1].request.attempts = 2
    /\ event[1].request.calls = <<"reject">>
    /\ event[1].before.authStore.accessToken = <<"A", 2>>
    /\ event[1].before.authStore.isAuthenticated
    /\ Cleared(authStore)

IsRefreshWrite == IsSent /\ event[1].input[1] = "refresh"

\* the step just taken called the store's logout: the end of useAuth.logout,
\* or a forced logout by the response interceptor
IsLogoutWrite ==
    \/ HasReturned("logout")
    \/ IsSettled /\ event[1].request.nLogout > 0

\* C30: setTokens leaves user, isAuthenticated and isHydrated unchanged and
\* logout leaves isHydrated unchanged, so a session that is hydrated stays
\* hydrated through every login, refresh and logout
C30_HydrationSurvives ==
    /\ authStore.isHydrated
    /\ \A n \in 1..MaxPairs :
          LET s == setTokens(authStore, AccessOf(n), RefreshOf(n))
          IN /\ s.user = authStore.user
             /\ s.isAuthenticated = authStore.isAuthenticated
             /\ s.isHydrated = authStore.isHydrated
    /\ logout(authStore).isHydrated = authStore.isHydrated
    /\ IsRefreshWrite
       => /\ authStore.user = event[1].before.authStore.user
          /\ authStore.isAuthenticated = event[1].before.authStore.isAuthenticated
          /\ authStore.isHydrated = event[1].before.authStore.isHydrated
    /\ IsLogoutWrite
       => authStore.isHydrated = event[1].before.authStore.isHydrated
    /\ HasReturned("login")
       => authStore.isHydrated = event[1].before.authStore.isHydrated

\* a refresh stored a second pair in a hydrated, authenticated session
C30_Witness ==
    /\ IsRefreshWrite
    /\ event[1].before.authStore.isHydrated
    /\ event[1].before.authStore.isAuthenticated
    /\ event[1].before.authStore.accessToken = <<"A", 1>>
    /\ authStore.accessToken = <<"A", 2>>
    /\ authStore.user = event[1].before.authStore.user
    /\ authStore.isAuthenticated
    /\ authStore.isHydrated

====
